---- MODULE Spec2Model ----
(***************************************************************************)
(* N-puzzle solver (src/src/lib/puzzleSolver.ts): the grid helpers, the    *)
(* four heuristics, the parity test isSolvable and the three search loops  *)
(* of PuzzleSolver.solve, one action per loop iteration.                   *)
(*                                                                         *)
(* A PuzzleState is a sequence of rows; the source indexes rows and        *)
(* columns from 0, so cell (i, j) of the source is state[i + 1][j + 1].    *)
(* A PuzzleNode lives in the arena `nodes`; its parent is an index into    *)
(* the arena and 0 stands for null.                                        *)
(***************************************************************************)
EXTENDS Integers, Sequences, FiniteSets, TLC

VARIABLES
    size,           \* PuzzleSolver.size of the solver instance
    initialState,   \* argument of solve
    algorithm,      \* argument of solve
    heuristic,      \* argument of solve
    nodes,          \* every PuzzleNode created by the call, in creation order
    frontier,       \* queue / stack / openSet, as indices into nodes
    visited,        \* the Set of visited state keys
    fScore,         \* the fScore Map of the astar branch, a function from state keys
    nodesExplored,
    maxDepth,
    status,         \* "idle", "running", "returned", "threw"
    error,          \* message of the Error thrown, "" if none
    path,           \* Solution.path of a returned call
    board,          \* a grid handed to the pure functions (isSolvable, heuristics)
    origin,         \* the grid the walk over boards started from
    steps,          \* moves made by a bounded walk
    solvable,       \* isSolvable(board), as computed when the walk reached board
    estimates,      \* getHeuristic(kind, board) for each kind, as computed likewise
    boardError,     \* message of the Error isSolvable(board) threw, "" if it returned
    page,           \* the useState values of the page component Home, as a record
    calls,          \* the solve calls a solver instance has finished, oldest first
    heap            \* the arrays of the grids, by reference

solverVars == <<size, initialState, algorithm, heuristic, nodes, frontier, visited,
                fScore, nodesExplored, maxDepth, status, error, path>>
boardVars == <<board, origin, steps, solvable, estimates, boardError>>
outerVars == <<page, calls, heap>>
vars == <<size, initialState, algorithm, heuristic, nodes, frontier, visited,
          fScore, nodesExplored, maxDepth, status, error, path, board, origin, steps,
          solvable, estimates, boardError, page, calls, heap>>

(***************************************************************************)
(* Bounds of the model.                                                    *)
(***************************************************************************)
MaxScramble == 3    \* 3x3 inputs of solve lie at most this many moves from the goal
MaxPops == 80       \* loop iterations of one solve call that the model follows
MaxWalk == 5        \* moves of a bounded walk over boards
MaxSize == 4        \* largest board the bounded walks cover

(***************************************************************************)
(* Grid helpers.                                                           *)
(***************************************************************************)
\* mutant: the second argument is returned
MaxLatest(a, b) == b

Max(a, b) == IF a >= b THEN a ELSE b
Abs(a) == IF a >= 0 THEN a ELSE 0 - a

generateGoalState(n) ==
    [i \in 1..n |-> [j \in 1..n |->
        IF i = n /\ j = n THEN 0 ELSE (i - 1) * n + (j - 1) + 1]]

\* mutant: the first row left out of the comparison
isGoalStateBelowFirstRow(n, state) ==
    \A i \in 1..(n - 1) : \A j \in 0..(n - 1) :
        state[i + 1][j + 1] = generateGoalState(n)[i + 1][j + 1]

isGoalState(n, state) ==
    \A i \in 0..(n - 1) : \A j \in 0..(n - 1) :
        state[i + 1][j + 1] = generateGoalState(n)[i + 1][j + 1]

\* JSON.stringify(state): two grids have the same key iff they are equal cell by cell
Key(state) == state

hasBlank(n, state) == \E i \in 0..(n - 1) : \E j \in 0..(n - 1) : state[i + 1][j + 1] = 0

\* what getBlankPosition gives when it throws 'No blank tile found'
NoBlank == <<0 - 1, 0 - 1>>

\* mutant: the last cell is returned when no cell holds 0
getBlankPositionLastCell(n, state) ==
    LET first == CHOOSE k \in 0..(n * n) :
                     /\ k = n * n \/ state[(k \div n) + 1][(k % n) + 1] = 0
                     /\ \A m \in 0..(k - 1) : state[(m \div n) + 1][(m % n) + 1] # 0
    IN  IF first = n * n THEN <<n - 1, n - 1>> ELSE <<first \div n, first % n>>

\* first 0 in row-major order, as <<row, col>> counted from 0
\* the loops run past the last cell (k = n * n) when no cell holds 0
getBlankPosition(n, state) ==
    LET first == CHOOSE k \in 0..(n * n) :
                     /\ k = n * n \/ state[(k \div n) + 1][(k % n) + 1] = 0
                     /\ \A m \in 0..(k - 1) : state[(m \div n) + 1][(m % n) + 1] # 0
    IN  IF first = n * n THEN NoBlank ELSE <<first \div n, first % n>>

\* mutant: Left and Right are tried before Up and Down
directionsColumnsFirst == << <<0, 0 - 1>>, <<0, 1>>, <<0 - 1, 0>>, <<1, 0>> >>

\* lines 50-55: Up, Down, Left, Right
directions == << <<0 - 1, 0>>, <<1, 0>>, <<0, 0 - 1>>, <<0, 1>> >>

\* mutant: only the first of the two cells is written
swapCellsFirstOnly(state, r1, c1, r2, c2) ==
    [state EXCEPT ![r1 + 1][c1 + 1] = state[r2 + 1][c2 + 1]]

swapCells(state, r1, c1, r2, c2) ==
    [state EXCEPT ![r1 + 1][c1 + 1] = state[r2 + 1][c2 + 1],
                  ![r2 + 1][c2 + 1] = state[r1 + 1][c1 + 1]]

RECURSIVE movesFrom(_, _, _, _)
movesFrom(n, state, blank, d) ==
    IF d > Len(directions) THEN <<>>
    ELSE LET newRow == blank[1] + directions[d][1]
             newCol == blank[2] + directions[d][2]
             rest == movesFrom(n, state, blank, d + 1)
         IN  IF newRow >= 0 /\ newRow < n /\ newCol >= 0 /\ newCol < n
             THEN <<swapCells(state, blank[1], blank[2], newRow, newCol)>> \o rest
             ELSE rest

getPossibleMoves(n, state) == movesFrom(n, state, getBlankPosition(n, state), 1)

\* mutant: the row comparison is reversed
getActionRowsReversed(n, currentState, nextState) ==
    LET cur == getBlankPosition(n, currentState)
        nxt == getBlankPosition(n, nextState)
    IN  IF nxt[1] > cur[1] THEN "Up"
        ELSE IF nxt[1] < cur[1] THEN "Down"
        ELSE IF nxt[2] < cur[2] THEN "Left"
        ELSE IF nxt[2] > cur[2] THEN "Right"
        ELSE ""

\* mutant: the column comparison is reversed
getActionColumnsReversed(n, currentState, nextState) ==
    LET cur == getBlankPosition(n, currentState)
        nxt == getBlankPosition(n, nextState)
    IN  IF nxt[1] < cur[1] THEN "Up"
        ELSE IF nxt[1] > cur[1] THEN "Down"
        ELSE IF nxt[2] > cur[2] THEN "Left"
        ELSE IF nxt[2] < cur[2] THEN "Right"
        ELSE ""

getAction(n, currentState, nextState) ==
    LET cur == getBlankPosition(n, currentState)
        nxt == getBlankPosition(n, nextState)
    IN  IF nxt[1] < cur[1] THEN "Up"
        ELSE IF nxt[1] > cur[1] THEN "Down"
        ELSE IF nxt[2] < cur[2] THEN "Left"
        ELSE IF nxt[2] > cur[2] THEN "Right"
        ELSE ""

(***************************************************************************)
(* Solvability.                                                            *)
(***************************************************************************)
RECURSIVE flatFrom(_, _)
flatFrom(state, i) == IF i > Len(state) THEN <<>> ELSE state[i] \o flatFrom(state, i + 1)

\* state.flat(): the rows one after the other
flat(n, state) == flatFrom(state, 1)

RECURSIVE inversionsFrom(_, _, _)
\* the outer loop of countInversions from position i (counted from 0) on
inversionsFrom(flatState, length, i) ==
    IF i >= length - 1 THEN 0
    ELSE Cardinality({j \in (i + 1)..(length - 1) :
             /\ flatState[i + 1] # 0
             /\ flatState[j + 1] # 0
             /\ flatState[i + 1] > flatState[j + 1]})
         + inversionsFrom(flatState, length, i + 1)

\* mutant: the blank counted as a tile
countInversionsWithBlank(n, state) ==
    LET flatState == flat(n, state)
    IN  Cardinality({p \in (1..(n * n)) \X (1..(n * n)) :
                        p[1] < p[2] /\ flatState[p[1]] > flatState[p[2]]})

countInversions(n, state) == inversionsFrom(flat(n, state), n * n, 0)

\* mutant: the row of the blank counted from the bottom starting at 0
getBlankRowFromBottomZeroBased(n, state) ==
    n - 1 - getBlankPosition(n, state)[1]

getBlankRowFromBottom(n, state) == n - getBlankPosition(n, state)[1]

\* mutant: the rule of the odd sizes is used for every size
isSolvableByInversionsOnly(n, state) == countInversions(n, state) % 2 = 0

isSolvable(n, state) ==
    LET inversions == countInversions(n, state)
        blankRowFromBottom == getBlankRowFromBottom(n, state)
    IN  IF n % 2 = 1
        THEN inversions % 2 = 0
        ELSE (blankRowFromBottom % 2 = 0) = (inversions % 2 = 1)

\* the message of the Error a call of isSolvable throws, "" if it returns:
\* getBlankRowFromBottom is called on line 229, for odd and even sizes alike, and
\* lets the Error of getBlankPosition through
isSolvableError(n, state) ==
    IF getBlankPosition(n, state) = NoBlank THEN "No blank tile found" ELSE ""

\* the boolean a call of isSolvable returns; FALSE stands in when it throws
isSolvableResult(n, state) ==
    IF isSolvableError(n, state) = "" THEN isSolvable(n, state) ELSE FALSE

(***************************************************************************)
(* Heuristics.  A heuristic value is an integer, except the Euclidean one, *)
(* which the source computes in floating point: it is kept here in fixed   *)
(* point, in units of 1 / SqrtScale, each square root rounded down.        *)
(***************************************************************************)
Heuristics == {"hamming", "linearConflicts", "euclidean", "manhattan"}
Algorithms == {"bfs", "dfs", "astar"}

SqrtScale == 1000

\* Math.sqrt(x) for the sums of two squares that occur on boards up to MaxSize
sqrtFixed == [x \in 0..(2 * MaxSize * MaxSize) |->
    CHOOSE r \in 0..(2 * MaxSize * SqrtScale) :
        r * r <= x * SqrtScale * SqrtScale /\ (r + 1) * (r + 1) > x * SqrtScale * SqrtScale]

RECURSIVE sumCells(_, _, _)
\* sum of f[k] for the cells k = from .. n*n - 1, in row-major order
sumCells(f, from, upto) == IF from > upto THEN 0 ELSE f[from] + sumCells(f, from + 1, upto)

\* mutant: the goal row of a tile taken as value / N, not (value - 1) / N
manhattanDistanceRowOff(n, state) ==
    sumCells([c \in 0..(n * n - 1) |->
                LET i == c \div n
                    j == c % n
                    value == state[i + 1][j + 1]
                IN  IF value # 0
                    THEN Abs(i - (value \div n)) + Abs(j - ((value - 1) % n))
                    ELSE 0], 0, n * n - 1)

\* mutant: the blank is given the last cell as goal and its distance is added
manhattanDistanceWithBlank(n, state) ==
    sumCells([k \in 0..(n * n - 1) |->
        LET i == k \div n
            j == k % n
            value == state[i + 1][j + 1]
            goalRow == IF value # 0 THEN (value - 1) \div n ELSE n - 1
            goalCol == IF value # 0 THEN (value - 1) % n ELSE n - 1
        IN  Abs(i - goalRow) + Abs(j - goalCol)], 0, n * n - 1)

manhattanDistance(n, state) ==
    sumCells([k \in 0..(n * n - 1) |->
        LET i == k \div n
            j == k % n
            value == state[i + 1][j + 1]
            goalRow == (value - 1) \div n
            goalCol == (value - 1) % n
        IN  IF value # 0 THEN Abs(i - goalRow) + Abs(j - goalCol) ELSE 0], 0, n * n - 1)

hammingDistance(n, state) ==
    sumCells([k \in 0..(n * n - 1) |->
        LET i == k \div n
            j == k % n
        IN  IF state[i + 1][j + 1] # generateGoalState(n)[i + 1][j + 1] THEN 1 ELSE 0],
        0, n * n - 1)

countLinearConflicts(tiles, goalTiles) ==
    LET sz == Len(tiles)
    IN  sumCells([i \in 0..(sz - 1) |->
            LET tile == tiles[i + 1]
                goalTile == goalTiles[i + 1]
                tileRow == tile \div sz
                goalTileRow == goalTile \div sz
                tileCol == tile % sz
                goalTileCol == goalTile % sz
            IN  IF /\ tile # 0
                   /\ goalTile # 0
                   /\ tileRow = goalTileRow
                   /\ tileCol < goalTileCol
                   /\ goalTileCol < sz - 1
                THEN 1 ELSE 0], 0, sz - 1)

linearConflicts(n, state) ==
    LET goalState == generateGoalState(n)
        rows == sumCells([i \in 0..(n - 1) |->
                    countLinearConflicts(state[i + 1], goalState[i + 1])], 0, n - 1)
        cols == sumCells([j \in 0..(n - 1) |->
                    countLinearConflicts([r \in 1..n |-> state[r][j + 1]],
                                         [r \in 1..n |-> goalState[r][j + 1]])], 0, n - 1)
    IN  rows + cols

euclideanDistance(n, state) ==
    sumCells([k \in 0..(n * n - 1) |->
        LET i == k \div n
            j == k % n
            value == state[i + 1][j + 1]
            goalRow == (value - 1) \div n
            goalCol == (value - 1) % n
        IN  IF value # 0
            THEN sqrtFixed[(i - goalRow) * (i - goalRow) + (j - goalCol) * (j - goalCol)]
            ELSE 0], 0, n * n - 1)

\* what getHeuristic gives when its default branch throws; the estimates are >= 0
UnknownHeuristic == 0 - 1

\* mutant: the default branch returns 0
getHeuristicDefaultZero(kind, n, state) ==
    CASE kind = "hamming" -> hammingDistance(n, state)
      [] kind = "linearConflicts" -> linearConflicts(n, state)
      [] kind = "euclidean" -> euclideanDistance(n, state)
      [] kind = "manhattan" -> manhattanDistance(n, state)
      [] OTHER -> 0

getHeuristic(kind, n, state) ==
    CASE kind = "hamming" -> hammingDistance(n, state)
      [] kind = "linearConflicts" -> linearConflicts(n, state)
      [] kind = "euclidean" -> euclideanDistance(n, state)
      [] kind = "manhattan" -> manhattanDistance(n, state)
      [] OTHER -> UnknownHeuristic

\* depth + heuristic value, in the unit of the heuristic value
addDepth(kind, depth, h) == IF kind = "euclidean" THEN depth * SqrtScale + h ELSE depth + h

(***************************************************************************)
(* Search nodes.                                                           *)
(***************************************************************************)
\* parent is an index into arena, 0 for null
createNode(n, state, parent, action, kind, arena) ==
    [state |-> state,
     action |-> action,
     parent |-> parent,
     depth |-> IF parent # 0 THEN arena[parent].depth + 1 ELSE 0,
     cost |-> getHeuristic(kind, n, state)]

RECURSIVE reconstructPathWithRoot(_, _)
\* mutant: the action of the root is unshifted as well
reconstructPathWithRoot(arena, node) ==
    IF node = 0 THEN <<>>
    ELSE reconstructPathWithRoot(arena, arena[node].parent) \o <<arena[node].action>>

RECURSIVE reconstructPath(_, _)
reconstructPath(arena, node) ==
    IF arena[node].parent # 0
    THEN Append(reconstructPath(arena, arena[node].parent), arena[node].action)
    ELSE <<>>

\* fScore.get(key) || 0
fScoreOf(map, key) == IF key \in DOMAIN map THEN map[key] ELSE 0

\* fScore.set(key, value)
fScoreSet(map, key, value) ==
    [k \in (DOMAIN map) \cup {key} |-> IF k = key THEN value ELSE map[k]]

\* mutant: the queue is taken from its back
shiftQueueFromBack(queue) ==
    [node |-> queue[Len(queue)], rest |-> SubSeq(queue, 1, Len(queue) - 1)]

\* queue.shift(): the node taken and the queue left
shiftQueue(queue) == [node |-> Head(queue), rest |-> Tail(queue)]

\* mutant: the stack gives its oldest entry
popStackOldest(stack) == [node |-> Head(stack), rest |-> Tail(stack)]

\* stack.pop(): the node taken and the stack left
popStack(stack) == [node |-> stack[Len(stack)], rest |-> SubSeq(stack, 1, Len(stack) - 1)]

\* openSet.sort(by fScore of the node's state).  The sort is stable, so the result
\* is the order by (fScore, position before the sort): entry i is given the number
\* fScore * (len + 1) + i and the numbers are sorted.
sortOpenSet(openSet, arena, map) ==
    LET len == Len(openSet)
        numbered == [i \in 1..len |->
                        fScoreOf(map, Key(arena[openSet[i]].state)) * (len + 1) + i]
        sorted == SortSeq(numbered, LAMBDA a, b : a < b)
    IN  [r \in 1..len |-> openSet[sorted[r] % (len + 1)]]

\* mutant: visited.add left out
addVisitedDropped(seen, key) == seen

\* visited.add(key)
addVisited(seen, key) == seen \cup {key}

\* mutant: the test of the popped node never finds its state
hasVisitedNever(seen, key) == FALSE

\* visited.has(key)
hasVisited(seen, key) == key \in seen

\* mutant: the pop is counted after the test of the visited set, so a node that is
\* dropped is not counted
countPopAfterVisitedTest(count, goal, seen) == IF goal \/ ~seen THEN count + 1 ELSE count

\* nodesExplored++ on the line after the pop; goal and seen tell what the two tests
\* that follow will find for the node
countPop(count, goal, seen) == count + 1

\* mutant: the new nodes are put in front of the frontier
pushAllInFront(rest, added) == added \o rest

\* queue.push, stack.push, openSet.push for each new node in turn
pushAll(rest, added) == rest \o added

\* the moves of getPossibleMoves whose key is not in the visited set, in order
unvisitedMoves(moves, seen) == SelectSeq(moves, LAMBDA m : Key(m) \notin seen)

\* the nodes created for the moves of the node at index parent
childNodes(n, moves, parent, kind, arena) ==
    [c \in 1..Len(moves) |->
        createNode(n, moves[c], parent,
                   getAction(n, arena[parent].state, moves[c]), kind, arena)]

RECURSIVE setScores(_, _, _, _)
\* fScore.set(moveStr, newNode.depth + heuristic(move)) for each child, in order
setScores(map, children, kind, c) ==
    IF c > Len(children) THEN map
    ELSE setScores(fScoreSet(map, Key(children[c].state),
                             addDepth(kind, children[c].depth, children[c].cost)),
                   children, kind, c + 1)

(***************************************************************************)
(* Inputs of solve: every 2x2 permutation grid; the 3x3 grids at most      *)
(* MaxScramble moves from the goal, the 3x3 goal with tiles 1 and 2        *)
(* exchanged (an unsolvable grid), and two named 3x3 grids.                *)
(***************************************************************************)
exchanged(n) == swapCells(generateGoalState(n), 0, 0, 0, 1)

permutationGrids(n) ==
    {g \in [1..n -> [1..n -> 0..(n * n - 1)]] :
        \A a, b \in 0..(n * n - 1) :
            a # b => g[(a \div n) + 1][(a % n) + 1] # g[(b \div n) + 1][(b % n) + 1]}

moveSet(n, state) ==
    LET moves == getPossibleMoves(n, state) IN {moves[d] : d \in 1..Len(moves)}

RECURSIVE scrambled(_, _, _)
scrambled(n, grids, k) ==
    IF k = 0 THEN grids
    ELSE scrambled(n, grids \cup UNION {moveSet(n, g) : g \in grids}, k - 1)

SolverSizes == {2, 3}

\* 3x3 inputs given by name: the grid of the specification's scenario, and a grid
\* 11 moves from the goal
scenarioGrid == << <<1, 2, 3>>, <<4, 0, 6>>, <<7, 5, 8>> >>
elevenGrid == << <<1, 2, 3>>, <<8, 6, 7>>, <<4, 0, 5>> >>

\* grids without a blank: the tiles 1..n*n in order, and in reverse order
filled(n) == [i \in 1..n |-> [j \in 1..n |-> (i - 1) * n + j]]
filledReversed(n) == [i \in 1..n |-> [j \in 1..n |-> n * n + 1 - ((i - 1) * n + j)]]

solveInputs(n) ==
    (IF n = 2 THEN permutationGrids(2)
     ELSE scrambled(n, {generateGoalState(n)}, MaxScramble)
              \cup {exchanged(n), scenarioGrid, elevenGrid})
        \cup {filled(n), filledReversed(n)}

idleBoard ==
    /\ board = <<>>
    /\ origin = ""
    /\ steps = 0
    /\ solvable = FALSE
    /\ estimates = <<>>
    /\ boardError = ""

idleOuter ==
    /\ page = <<>>
    /\ calls = <<>>
    /\ heap = <<>>

(***************************************************************************)
(* PuzzleSolver.solve.                                                     *)
(***************************************************************************)
Init ==
    /\ size \in SolverSizes
    /\ initialState \in solveInputs(size)
    /\ algorithm \in Algorithms \cup {"greedy"}
    /\ heuristic \in Heuristics \cup {"chebyshev"}
    /\ nodes = <<>>
    /\ frontier = <<>>
    /\ visited = {}
    /\ fScore = <<>>
    /\ nodesExplored = 0
    /\ maxDepth = 0
    /\ status = "idle"
    /\ error = ""
    /\ path = <<>>
    /\ idleBoard
    /\ idleOuter

\* mutant: the visited set of the call before is used again
newSetKept == visited

\* line 248: new Set<string>()
newSet == {}

\* line 312: new Map<string, number>()
newMap == <<>>

\* lines 242-251, 281, 311-313 and 348: solve(state, alg, kind) up to the first loop
\* test; the counters, the visited set, the frontier and the fScore map are locals of
\* the call and are made anew
enterSolve(state, alg, kind) ==
    /\ nodesExplored' = 0
    /\ maxDepth' = 0
    /\ visited' = newSet
    /\ path' = <<>>
    /\ IF getHeuristic(kind, size, state) = UnknownHeuristic
       THEN /\ status' = "threw"
            /\ error' = "Unknown heuristic: " \o kind
            /\ nodes' = <<>>
            /\ frontier' = <<>>
            /\ fScore' = newMap
       ELSE LET initialNode == createNode(size, state, 0, "", kind, <<>>)
            IN  /\ nodes' = <<initialNode>>
                /\ IF alg \in Algorithms
                   THEN /\ frontier' = <<1>>
                        /\ fScore' = IF alg = "astar"
                                     THEN fScoreSet(newMap, Key(state),
                                                    getHeuristic(kind, size, state))
                                     ELSE newMap
                        /\ status' = "running"
                        /\ error' = ""
                   ELSE /\ status' = "threw"
                        /\ error' = "No solution found"
                        /\ frontier' = <<>>
                        /\ fScore' = newMap

Solve ==
    /\ status = "idle"
    /\ enterSolve(initialState, algorithm, heuristic)
    /\ UNCHANGED <<size, initialState, algorithm, heuristic>>
    /\ UNCHANGED boardVars
    /\ UNCHANGED outerVars

\* the node the iteration takes from the frontier, and the frontier left:
\* queue.shift(), stack.pop(), or openSet.sort(...) followed by openSet.shift()
takeNode ==
    IF algorithm = "bfs" THEN shiftQueue(frontier)
    ELSE IF algorithm = "dfs" THEN popStack(frontier)
    ELSE shiftQueue(sortOpenSet(frontier, nodes, fScore))

\* lines 253-279, 283-309 and 315-345: one iteration of the loop of the branch
Iteration ==
    LET taken == takeNode
        node == nodes[taken.node]
        seen == addVisited(visited, Key(node.state))
        moves == unvisitedMoves(getPossibleMoves(size, node.state), seen)
        children == childNodes(size, moves, taken.node, heuristic, nodes)
    IN  /\ nodesExplored' = countPop(nodesExplored, isGoalState(size, node.state),
                                     hasVisited(visited, Key(node.state)))
        /\ maxDepth' = Max(maxDepth, node.depth)
        /\ IF isGoalState(size, node.state)
           THEN /\ path' = reconstructPath(nodes, taken.node)
                /\ status' = "returned"
                /\ frontier' = taken.rest
                /\ UNCHANGED <<nodes, visited, fScore, error>>
           ELSE IF hasVisited(visited, Key(node.state))
           THEN /\ frontier' = taken.rest
                /\ UNCHANGED <<nodes, visited, fScore, status, error, path>>
           ELSE IF getBlankPosition(size, node.state) = NoBlank
           THEN /\ visited' = seen
                /\ frontier' = taken.rest
                /\ status' = "threw"
                /\ error' = "No blank tile found"
                /\ UNCHANGED <<nodes, fScore, path>>
           ELSE /\ visited' = seen
                /\ nodes' = nodes \o children
                /\ frontier' = pushAll(taken.rest,
                                        [c \in 1..Len(children) |-> Len(nodes) + c])
                /\ fScore' = IF algorithm = "astar"
                             THEN setScores(fScore, children, heuristic, 1)
                             ELSE fScore
                /\ UNCHANGED <<status, error, path>>
        /\ UNCHANGED <<size, initialState, algorithm, heuristic>>
        /\ UNCHANGED boardVars
        /\ UNCHANGED <<page, calls>>

\* lines 253-279
BfsIteration ==
    /\ status = "running"
    /\ algorithm = "bfs"
    /\ Len(frontier) > 0
    /\ nodesExplored < MaxPops
    /\ Iteration
    /\ UNCHANGED heap

\* lines 283-309
DfsIteration ==
    /\ status = "running"
    /\ algorithm = "dfs"
    /\ Len(frontier) > 0
    /\ nodesExplored < MaxPops
    /\ Iteration
    /\ UNCHANGED heap

\* lines 315-345
AstarIteration ==
    /\ status = "running"
    /\ algorithm = "astar"
    /\ Len(frontier) > 0
    /\ nodesExplored < MaxPops
    /\ Iteration
    /\ UNCHANGED heap

\* line 348, reached when the loop test fails
NoSolution ==
    /\ status = "running"
    /\ Len(frontier) = 0
    /\ status' = "threw"
    /\ error' = "No solution found"
    /\ UNCHANGED <<size, initialState, algorithm, heuristic, nodes, frontier, visited,
                   fScore, nodesExplored, maxDepth, path>>
    /\ UNCHANGED boardVars
    /\ UNCHANGED outerVars

\* lines 227-240: isSolvable called on the grid that solve is about to be called on
IsSolvable ==
    /\ status = "idle"
    /\ board = <<>>
    /\ board' = initialState
    /\ solvable' = isSolvableResult(size, initialState)
    /\ boardError' = isSolvableError(size, initialState)
    /\ UNCHANGED <<origin, steps, estimates>>
    /\ UNCHANGED solverVars
    /\ UNCHANGED outerVars

Next == IsSolvable \/ Solve \/ BfsIteration \/ DfsIteration \/ AstarIteration \/ NoSolution

Spec == Init /\ [][Next]_vars

\* ENABLED <<Next>>_vars: the call has not begun, or it is in a loop whose next
\* iteration (or whose exit) the model follows
canStep ==
    \/ status = "idle"
    \/ status = "running" /\ (Len(frontier) = 0 \/ nodesExplored < MaxPops)

\* solve is synchronous and runs to completion: a call that can take a step takes
\* it.  This is WF_vars(Next), with ENABLED <<Next>>_vars written as canStep.
FairSpec == Spec /\ ([]<>(~canStep) \/ []<><<Next>>_vars)

(***************************************************************************)
(* The arrays behind the grids.  A grid is an array of row arrays, and a   *)
(* node keeps the reference it is given: the root keeps the caller's grid. *)
(* heap.rows holds the row arrays by the order of their allocation; a grid *)
(* is the sequence of the places of its rows in heap.rows.  heap.goal is   *)
(* the goalState of the constructor, heap.input the grid the caller passes *)
(* to isSolvable and solve, heap.states[k] the state of the node nodes[k]. *)
(* HeapSpec runs isSolvable and solve as Spec does and applies to heap.rows*)
(* every allocation and every write to a cell that the calls make.         *)
(***************************************************************************)
\* the heuristics of the calls that HeapSpec follows: one that is known and one that
\* makes solve throw
HeapHeuristics == {"manhattan", "chebyshev"}

\* the grids the caller passes: three 2x2 grids, the 3x3 grids at most two moves from
\* the goal, and a grid without a blank
heapInputs(n) ==
    IF n = 2
    THEN {generateGoalState(2), exchanged(2), << <<0, 1>>, <<3, 2>> >>}
    ELSE scrambled(n, {generateGoalState(n)}, 2) \cup {filled(n)}

\* the grid that the rows at the places ref hold
deref(rows, ref) == [i \in 1..Len(ref) |-> rows[ref[i]]]

\* rows with the rows of grid allocated at its end
allocGrid(rows, grid) == rows \o grid

\* mutant: [...state], a new outer array over the same rows
copyGridShallow(rows, ref) == [rows |-> rows, ref |-> ref]

\* line 62: state.map(row => [...row]), a new row for every row
copyGrid(rows, ref) ==
    [rows |-> allocGrid(rows, deref(rows, ref)),
     ref |-> [i \in 1..Len(ref) |-> Len(rows) + i]]

\* lines 63-64: the right-hand side is read, then the two cells are written in turn
swapOnHeap(rows, ref, r1, c1, r2, c2) ==
    LET first == rows[ref[r2 + 1]][c2 + 1]
        second == rows[ref[r1 + 1]][c1 + 1]
        written == [rows EXCEPT ![ref[r1 + 1]][c1 + 1] = first]
    IN  [written EXCEPT ![ref[r2 + 1]][c2 + 1] = second]

RECURSIVE heapMovesFrom(_, _, _, _, _)
\* lines 57-67 on the arrays: the rows after the directions d.. and the grids pushed
heapMovesFrom(n, rows, ref, blank, d) ==
    IF d > Len(directions) THEN [rows |-> rows, moves |-> <<>>]
    ELSE LET newRow == blank[1] + directions[d][1]
             newCol == blank[2] + directions[d][2]
         IN  IF newRow >= 0 /\ newRow < n /\ newCol >= 0 /\ newCol < n
             THEN LET copy == copyGrid(rows, ref)
                      swapped == swapOnHeap(copy.rows, copy.ref, blank[1], blank[2],
                                            newRow, newCol)
                      rest == heapMovesFrom(n, swapped, ref, blank, d + 1)
                  IN  [rows |-> rest.rows, moves |-> <<copy.ref>> \o rest.moves]
             ELSE heapMovesFrom(n, rows, ref, blank, d + 1)

\* lines 47-70 on the arrays
heapPossibleMoves(n, rows, ref) ==
    heapMovesFrom(n, rows, ref, getBlankPosition(n, deref(rows, ref)), 1)

\* the constructor has run and the caller holds a grid
HeapInit ==
    /\ size \in SolverSizes
    /\ initialState \in heapInputs(size)
    /\ algorithm \in Algorithms
    /\ heuristic \in HeapHeuristics
    /\ nodes = <<>>
    /\ frontier = <<>>
    /\ visited = {}
    /\ fScore = <<>>
    /\ nodesExplored = 0
    /\ maxDepth = 0
    /\ status = "idle"
    /\ error = ""
    /\ path = <<>>
    /\ idleBoard
    /\ page = <<>>
    /\ calls = <<>>
    /\ heap = [rows |-> allocGrid(allocGrid(<<>>, generateGoalState(size)), initialState),
               goal |-> [i \in 1..size |-> i],
               input |-> [i \in 1..size |-> size + i],
               states |-> <<>>]

\* lines 227-240: state.flat() on line 208 allocates the one array of the call
HeapIsSolvable ==
    /\ status = "idle"
    /\ board = <<>>
    /\ board' = deref(heap.rows, heap.input)
    /\ solvable' = isSolvableResult(size, deref(heap.rows, heap.input))
    /\ boardError' = isSolvableError(size, deref(heap.rows, heap.input))
    /\ heap' = [heap EXCEPT !.rows = Append(heap.rows, flat(size, deref(heap.rows, heap.input)))]
    /\ UNCHANGED <<origin, steps, estimates>>
    /\ UNCHANGED solverVars
    /\ UNCHANGED <<page, calls>>

\* lines 242-313: createNode keeps the reference to the caller's grid
HeapSolve ==
    /\ status = "idle"
    /\ enterSolve(deref(heap.rows, heap.input), algorithm, heuristic)
    /\ heap' = [heap EXCEPT !.states = IF getHeuristic(heuristic, size, initialState)
                                             = UnknownHeuristic
                                        THEN <<>> ELSE <<heap.input>>]
    /\ UNCHANGED <<size, initialState, algorithm, heuristic>>
    /\ UNCHANGED boardVars
    /\ UNCHANGED <<page, calls>>

\* the arrays after the iteration that pops the node at index k: getPossibleMoves is
\* reached when the node is neither the goal nor visited, and the nodes created keep
\* the grids it returns
heapAfterIteration(k) ==
    LET ref == heap.states[k]
        state == deref(heap.rows, ref)
        seen == addVisited(visited, Key(state))
        made == heapPossibleMoves(size, heap.rows, ref)
        kept == SelectSeq(made.moves, LAMBDA m : Key(deref(made.rows, m)) \notin seen)
    IN  IF \/ isGoalState(size, state)
           \/ Key(state) \in visited
           \/ getBlankPosition(size, state) = NoBlank
        THEN heap
        ELSE [heap EXCEPT !.rows = made.rows, !.states = heap.states \o kept]

\* lines 253-279, 283-309 and 315-345
HeapIteration ==
    /\ status = "running"
    /\ Len(frontier) > 0
    /\ nodesExplored < MaxPops
    /\ Iteration
    /\ heap' = heapAfterIteration(takeNode.node)

\* line 348
HeapNoSolution ==
    /\ status = "running"
    /\ Len(frontier) = 0
    /\ status' = "threw"
    /\ error' = "No solution found"
    /\ UNCHANGED <<size, initialState, algorithm, heuristic, nodes, frontier, visited,
                   fScore, nodesExplored, maxDepth, path>>
    /\ UNCHANGED boardVars
    /\ UNCHANGED outerVars

HeapNext == HeapIsSolvable \/ HeapSolve \/ HeapIteration \/ HeapNoSolution

HeapSpec == HeapInit /\ [][HeapNext]_vars

(***************************************************************************)
(* Calls one after another.  The variables of solve are the locals of the  *)
(* call: when a call has ended they hold what it left, and the call after  *)
(* it, on the same solver or on a new one of the same size, begins on line *)
(* 243 with no knowledge of them.  calls is the record of the calls ended: *)
(* the arguments of each and what it returned or threw.                    *)
(***************************************************************************)
MaxCalls == 3

RepeatHeuristics == {"manhattan", "hamming"}

\* the grids the calls are made on
repeatInputs(n) ==
    IF n = 2 THEN {<< <<0, 1>>, <<3, 2>> >>, exchanged(2)}
    ELSE {scenarioGrid}

RepeatInit ==
    /\ size \in SolverSizes
    /\ initialState \in repeatInputs(size)
    /\ algorithm \in Algorithms
    /\ heuristic \in RepeatHeuristics
    /\ nodes = <<>>
    /\ frontier = <<>>
    /\ visited = {}
    /\ fScore = <<>>
    /\ nodesExplored = 0
    /\ maxDepth = 0
    /\ status = "idle"
    /\ error = ""
    /\ path = <<>>
    /\ idleBoard
    /\ idleOuter

\* line 242: a call of solve begins
RepeatSolve ==
    /\ Len(calls) < MaxCalls
    /\ Solve

\* the call has ended; the caller takes its result and chooses the arguments of the
\* next call, on the same solver or on a new PuzzleSolver(size)
NextCall ==
    /\ status \in {"returned", "threw"}
    /\ Len(calls) < MaxCalls
    /\ calls' = Append(calls, [state |-> initialState,
                               algorithm |-> algorithm,
                               heuristic |-> heuristic,
                               status |-> status,
                               error |-> error,
                               path |-> path,
                               nodesExplored |-> nodesExplored,
                               maxDepth |-> maxDepth])
    /\ initialState' \in repeatInputs(size)
    /\ algorithm' \in Algorithms
    /\ heuristic' \in RepeatHeuristics
    /\ status' = "idle"
    /\ \E fresh \in BOOLEAN :
          IF fresh
          THEN /\ nodes' = <<>>
               /\ frontier' = <<>>
               /\ visited' = {}
               /\ fScore' = <<>>
               /\ nodesExplored' = 0
               /\ maxDepth' = 0
               /\ error' = ""
               /\ path' = <<>>
          ELSE UNCHANGED <<nodes, frontier, visited, fScore, nodesExplored, maxDepth,
                           error, path>>
    /\ board' = <<>>
    /\ solvable' = FALSE
    /\ boardError' = ""
    /\ UNCHANGED <<origin, steps, estimates, size, page, heap>>

RepeatNext ==
    \/ IsSolvable
    \/ RepeatSolve
    \/ BfsIteration
    \/ DfsIteration
    \/ AstarIteration
    \/ NoSolution
    \/ NextCall

RepeatSpec == RepeatInit /\ [][RepeatNext]_vars

(***************************************************************************)
(* Walks over boards: the grids the pure functions are applied to.  A walk *)
(* starts from the goal grid, or from the goal grid with tiles 1 and 2     *)
(* exchanged, and slides the blank by getPossibleMoves; isSolvable is      *)
(* applied to every grid reached.  EnumSpec walks the 2x2 and 3x3 boards   *)
(* exhaustively (4! and 9! grids); BoardSpec walks the boards of sizes 2   *)
(* to MaxSize for at most MaxWalk moves and applies the four heuristics    *)
(* to every grid reached as well.                                          *)
(***************************************************************************)
EnumSizes == {2, 3}
BoardSizes == 2..MaxSize

idleSolver ==
    /\ initialState = <<>>
    /\ algorithm = ""
    /\ heuristic = ""
    /\ nodes = <<>>
    /\ frontier = <<>>
    /\ visited = {}
    /\ fScore = <<>>
    /\ nodesExplored = 0
    /\ maxDepth = 0
    /\ status = "idle"
    /\ error = ""
    /\ path = <<>>
    /\ idleOuter

startBoard(sizes) ==
    /\ size \in sizes
    /\ origin \in {"goal", "exchanged"}
    /\ board = IF origin = "goal" THEN generateGoalState(size) ELSE exchanged(size)
    /\ solvable = isSolvableResult(size, board)
    /\ boardError = isSolvableError(size, board)
    /\ steps = 0
    /\ idleSolver

slideTo(next) ==
    /\ board' = next
    /\ solvable' = isSolvableResult(size, next)
    /\ boardError' = isSolvableError(size, next)
    /\ UNCHANGED <<size, origin>>
    /\ UNCHANGED <<initialState, algorithm, heuristic, nodes, frontier, visited,
                   fScore, nodesExplored, maxDepth, status, error, path>>
    /\ UNCHANGED outerVars

\* getHeuristic applied to a grid, once for each kind
heuristicsOf(n, state) == [kind \in Heuristics |-> getHeuristic(kind, n, state)]

EnumInit == startBoard(EnumSizes) /\ estimates = <<>>

Slide ==
    /\ LET moves == getPossibleMoves(size, board)
       IN  \E d \in 1..Len(moves) : slideTo(moves[d])
    /\ UNCHANGED <<steps, estimates>>

EnumNext == Slide

EnumSpec == EnumInit /\ [][EnumNext]_vars

BoardInit == startBoard(BoardSizes) /\ estimates = heuristicsOf(size, board)

SlideCounted ==
    /\ steps < MaxWalk
    /\ LET moves == getPossibleMoves(size, board)
       IN  \E d \in 1..Len(moves) : slideTo(moves[d])
    /\ steps' = steps + 1
    /\ estimates' = heuristicsOf(size, board')

BoardNext == SlideCounted

BoardSpec == BoardInit /\ [][BoardNext]_vars

(***************************************************************************)
(* The page component Home (src/src/app/page.tsx).  The useState values    *)
(* are the fields of the record `page`; size is the variable size.  An     *)
(* event handler is one action, except handleSolve: it calls solve, whose  *)
(* loop runs as the iterations above, and no other event is handled until  *)
(* the call has ended and handleSolve has set its results.  The state is   *)
(* taken after the effects of a render have run: initializePuzzle after    *)
(* the mount and after a change of size.                                   *)
(***************************************************************************)
MaxEvents == 3          \* clicks and selections that the model follows after the mount
MaxPageScramble == 1    \* 3x3 grids of the page lie at most this many moves from the goal

\* 3 is the size at the mount; 2 stands for the sizes set by handleSizeChange
PageSizes == {2, 3}

\* the heuristics selected on the page, of the four the select offers
PageHeuristics == {"manhattan", "hamming"}

\* the grids the shuffle of initializePuzzle gives, of all the permutations
pageGrids(n) ==
    IF n = 2
    THEN {generateGoalState(2), exchanged(2), << <<1, 0>>, <<3, 2>> >>, << <<0, 1>>, <<3, 2>> >>}
    ELSE scrambled(n, {generateGoalState(n)}, MaxPageScramble) \cup {exchanged(n), scenarioGrid}

noStats == [nodesExplored |-> 0, maxDepth |-> 0]

\* lines 43-65
initializePuzzle(pg, state) ==
    [pg EXCEPT !.initialState = state,
               !.currentState = state,
               !.solution = <<>>,
               !.stats = noStats]

\* lines 8-30 and the effect of lines 32-34 after the mount; solution = <<>> is null
PageInit ==
    /\ size = 3
    /\ \E state \in pageGrids(3) :
          page = initializePuzzle(
                    [initialState |-> <<>>,
                     currentState |-> <<>>,
                     solution |-> <<>>,
                     selectedAlgorithm |-> "astar",
                     selectedHeuristic |-> "manhattan",
                     isSolving |-> FALSE,
                     currentStep |-> 0,
                     isPlaying |-> FALSE,
                     stats |-> noStats,
                     showCustomInput |-> FALSE,
                     inputError |-> "",
                     showSolvabilityInfo |-> FALSE,
                     events |-> 0], state)
    /\ initialState = <<>>
    /\ algorithm = ""
    /\ heuristic = ""
    /\ nodes = <<>>
    /\ frontier = <<>>
    /\ visited = {}
    /\ fScore = <<>>
    /\ nodesExplored = 0
    /\ maxDepth = 0
    /\ status = "idle"
    /\ error = ""
    /\ path = <<>>
    /\ idleBoard
    /\ calls = <<>>
    /\ heap = <<>>

\* the record after one more click or selection; `events` counts them and is no
\* state of the component
counted(pg) == [pg EXCEPT !.events = pg.events + 1]

\* a click or a selection on the page, which the notice covers while it shows; it
\* leaves the solver and the record of isSolvable alone
pageEvent ==
    /\ status = "idle"
    /\ page.events < MaxEvents
    /\ UNCHANGED solverVars
    /\ UNCHANGED boardVars
    /\ UNCHANGED <<calls, heap>>

\* line 323 (New Puzzle)
InitializePuzzle ==
    /\ ~page.showSolvabilityInfo
    /\ \E state \in pageGrids(size) : page' = counted(initializePuzzle(page, state))
    /\ pageEvent

\* lines 135-137 and the effect of lines 32-34: the effect runs when size has changed
HandleSizeChange ==
    /\ status = "idle"
    /\ page.events < MaxEvents
    /\ ~page.showSolvabilityInfo
    /\ \E newSize \in PageSizes \ {size} :
          /\ size' = newSize
          /\ \E state \in pageGrids(newSize) :
                page' = counted(initializePuzzle(page, state))
    /\ UNCHANGED <<initialState, algorithm, heuristic, nodes, frontier, visited, fScore,
                   nodesExplored, maxDepth, status, error, path>>
    /\ UNCHANGED boardVars
    /\ UNCHANGED <<calls, heap>>

\* lines 139-141
HandleAlgorithmChange ==
    /\ ~page.showSolvabilityInfo
    /\ \E alg \in Algorithms \ {page.selectedAlgorithm} :
          page' = counted([page EXCEPT !.selectedAlgorithm = alg])
    /\ pageEvent

\* lines 97-100
HandleHeuristicChange ==
    /\ ~page.showSolvabilityInfo
    /\ \E kind \in PageHeuristics \ {page.selectedHeuristic} :
          page' = counted([page EXCEPT !.selectedHeuristic = kind])
    /\ pageEvent

\* lines 123-132: the first 0 among the first size cells of the first size rows, or
\* NoBlank for null
findBlankTile(n, state) == getBlankPosition(n, state)

\* lines 104-121, for the button of cell (row, col); a click that changes nothing
\* is no step
HandleTileClick ==
    /\ ~page.showSolvabilityInfo
    /\ ~page.isSolving
    /\ LET blankPos == findBlankTile(size, page.currentState)
       IN  /\ blankPos # NoBlank
           /\ \E row \in 0..(size - 1) : \E col \in 0..(size - 1) :
                 /\ \/ Abs(row - blankPos[1]) = 1 /\ col = blankPos[2]
                    \/ Abs(col - blankPos[2]) = 1 /\ row = blankPos[1]
                 /\ page' = counted([page EXCEPT
                                !.currentState = swapCells(page.currentState, row, col,
                                                           blankPos[1], blankPos[2])])
    /\ pageEvent

\* checkSolvability without the test
checkSolvabilityAlways(n, state) == TRUE

\* lines 67-72
checkSolvability(n, state) == isSolvableResult(n, state)

\* lines 74-83: handleSolve up to the first loop test of solve.  An Error of
\* isSolvable is not caught and ends the handler; nothing has been set then.
HandleSolve ==
    /\ status = "idle"
    /\ page.events < MaxEvents
    /\ ~page.showSolvabilityInfo
    /\ UNCHANGED <<size, calls, heap>>
    /\ UNCHANGED boardVars
    /\ IF isSolvableError(size, page.currentState) # ""
       THEN /\ page' = counted(page)
            /\ UNCHANGED solverVars
       ELSE IF ~checkSolvability(size, page.currentState)
       THEN /\ page' = counted([page EXCEPT !.showSolvabilityInfo = TRUE])
            /\ UNCHANGED <<initialState, algorithm, heuristic, nodes, frontier, visited,
                           fScore, nodesExplored, maxDepth, status, error, path>>
       ELSE /\ initialState' = page.currentState
            /\ algorithm' = page.selectedAlgorithm
            /\ heuristic' = page.selectedHeuristic
            /\ enterSolve(page.currentState, page.selectedAlgorithm, page.selectedHeuristic)
            /\ page' = counted([page EXCEPT !.isSolving = TRUE])

\* the call has ended: its arguments and its locals are dropped
dropLocals ==
    /\ status' = "idle"
    /\ initialState' = <<>>
    /\ algorithm' = ""
    /\ heuristic' = ""
    /\ nodes' = <<>>
    /\ frontier' = <<>>
    /\ visited' = {}
    /\ fScore' = <<>>
    /\ nodesExplored' = 0
    /\ maxDepth' = 0
    /\ path' = <<>>
    /\ error' = ""
    /\ UNCHANGED size
    /\ UNCHANGED boardVars
    /\ UNCHANGED <<calls, heap>>

\* lines 250-348 within the call of line 83: the loop test of the branch of the
\* algorithm, then an iteration, or the throw of line 348 when the test fails
SolveLoop ==
    /\ status = "running"
    /\ IF Len(frontier) = 0 THEN NoSolution
       ELSE BfsIteration \/ DfsIteration \/ AstarIteration

\* lines 84-94, after the call of line 83: solve has returned and its result is
\* set, or it has thrown and the alert leaves solution and stats as they are
HandleSolveEnd ==
    /\ status \in {"returned", "threw"}
    /\ page' = IF status = "returned"
               THEN [page EXCEPT
                        !.solution = <<[path |-> path, nodesExplored |-> nodesExplored,
                                        maxDepth |-> maxDepth]>>,
                        !.stats = [nodesExplored |-> nodesExplored, maxDepth |-> maxDepth],
                        !.isSolving = FALSE]
               ELSE [page EXCEPT !.isSolving = FALSE]
    /\ dropLocals

\* what reading a cell outside a row gives
Undefined == 0 - 1

\* lines 159-167, on <<row, col>>
getNewPosition(row, col, move) ==
    CASE move = "Up" -> <<row - 1, col>>
      [] move = "Down" -> <<row + 1, col>>
      [] move = "Left" -> <<row, col - 1>>
      [] move = "Right" -> <<row, col + 1>>
      [] OTHER -> <<row, col>>

\* lines 151-153: the copy of state with the cells (blankRow, blankCol) and (newRow,
\* newCol) exchanged, newRow being a row of the grid.  A column outside the row
\* reads as undefined, and writing the 0 there lengthens the row when the column is
\* its length and leaves its cells alone when the column is -1.
exchangeInCopy(n, state, blankRow, blankCol, newRow, newCol) ==
    IF newCol >= 0 /\ newCol < Len(state[newRow + 1])
    THEN swapCells(state, blankRow, blankCol, newRow, newCol)
    ELSE LET cleared == [state EXCEPT ![blankRow + 1][blankCol + 1] = Undefined]
         IN  IF newCol = Len(state[newRow + 1])
             THEN [cleared EXCEPT ![newRow + 1] = Append(cleared[newRow + 1], 0)]
             ELSE cleared

RECURSIVE stepThrough(_, _, _, _, _)
\* lines 148-155: the loop of handleStepChange from i on; error is the message of the
\* Error that ended it, "" if it ran through.  solution.path[i] is undefined past the
\* end of the path; a row outside the grid is undefined, and reading its cell throws a
\* TypeError.
stepThrough(n, state, moves, i, step) ==
    IF i >= step THEN [state |-> state, error |-> ""]
    ELSE LET blank == getBlankPosition(n, state)
             move == IF i < Len(moves) THEN moves[i + 1] ELSE ""
             new == getNewPosition(blank[1], blank[2], move)
         IN  IF blank = NoBlank THEN [state |-> state, error |-> "No blank tile found"]
             ELSE IF new[1] < 0 \/ new[1] >= Len(state)
             THEN [state |-> state, error |-> "TypeError"]
             ELSE stepThrough(n, exchangeInCopy(n, state, blank[1], blank[2], new[1], new[2]),
                              moves, i + 1, step)

\* lines 143-157, with a solution on display; an Error ends the handler after
\* setCurrentStep and before setCurrentState
handleStepChange(pg, n, step) ==
    LET played == stepThrough(n, pg.initialState, pg.solution[1].path, 0, step)
    IN  IF played.error = ""
        THEN [pg EXCEPT !.currentStep = step, !.currentState = played.state]
        ELSE [pg EXCEPT !.currentStep = step]

\* the steps the controls of lines 405-442 ask for: a move of the path, Reset,
\* Previous, Next
stepsOffered(pg) ==
    (0..(Len(pg.solution[1].path) - 1))
        \cup {0, Max(0, pg.currentStep - 1),
              IF Len(pg.solution[1].path) <= pg.currentStep + 1
              THEN Len(pg.solution[1].path) ELSE pg.currentStep + 1}

\* lines 143-157, from one of the controls; a step that changes nothing is no step
HandleStepChange ==
    /\ ~page.showSolvabilityInfo
    /\ page.solution # <<>>
    /\ \E step \in stepsOffered(page) :
          /\ handleStepChange(page, size, step) # page
          /\ page' = counted(handleStepChange(page, size, step))
    /\ pageEvent

\* lines 169-172
HandlePlayPause ==
    /\ ~page.showSolvabilityInfo
    /\ page.solution # <<>>
    /\ page' = counted([page EXCEPT !.isPlaying = ~page.isPlaying])
    /\ pageEvent

\* lines 174-186: a tick of the interval, which runs while isPlaying with a solution
PlaybackTick ==
    /\ status = "idle"
    /\ page.isPlaying
    /\ page.solution # <<>>
    /\ page' = IF page.currentStep < Len(page.solution[1].path)
               THEN handleStepChange(page, size, page.currentStep + 1)
               ELSE [page EXCEPT !.isPlaying = FALSE]
    /\ UNCHANGED solverVars
    /\ UNCHANGED boardVars
    /\ UNCHANGED <<calls, heap>>

\* lines 550 and 580-583
CloseSolvabilityInfo ==
    /\ page.showSolvabilityInfo
    /\ page' = counted([page EXCEPT !.showSolvabilityInfo = FALSE,
                                    !.showCustomInput = FALSE])
    /\ pageEvent

\* lines 592-595 (New Puzzle of the notice)
NoticeNewPuzzle ==
    /\ page.showSolvabilityInfo
    /\ \E state \in pageGrids(size) :
          page' = counted(initializePuzzle([page EXCEPT !.showSolvabilityInfo = FALSE],
                                           state))
    /\ pageEvent

PageNext ==
    \/ InitializePuzzle
    \/ HandleSizeChange
    \/ HandleAlgorithmChange
    \/ HandleHeuristicChange
    \/ HandleTileClick
    \/ HandleSolve
    \/ SolveLoop
    \/ HandleSolveEnd
    \/ HandleStepChange
    \/ HandlePlayPause
    \/ PlaybackTick
    \/ CloseSolvabilityInfo
    \/ NoticeNewPuzzle

PageSpec == PageInit /\ [][PageNext]_vars

(***************************************************************************)
(* The Custom Puzzle Input dialog of the page (lines 188-237 and 448-540). *)
(* The page is taken at size 2, which the custom size field sets, so that  *)
(* every filling of the cells can be followed.  The text of a cell is a    *)
(* sequence of characters; gridInput is a field of `page` in this          *)
(* specification, <<>> for [].                                             *)
(***************************************************************************)
MaxInputEvents == 2     \* clicks on Solve and on Custom Input that the model follows

InputSize == 2

Digits == <<"0", "1", "2", "3", "4", "5", "6", "7", "8", "9">>

\* the texts typed into a cell: nothing, the tiles of the board, a number past the
\* last tile and a number with a fraction
CellTexts == {<<>>, <<"0">>, <<"1">>, <<"2">>, <<"3">>, <<"4">>, <<"1", ".", "5">>}

\* NaN stands as a number that no text parses to; isNaN tells it from the others
NaN == 0 - 1000000

isNaN(num) == num = NaN

digitValue(char) == (CHOOSE d \in 1..Len(Digits) : Digits[d] = char) - 1

isDigit(char) == \E d \in 1..Len(Digits) : Digits[d] = char

RECURSIVE digitsValue(_, _, _)
\* the value of the digits of text from position i on, up to the first character
\* that is no digit, after the value acc of the digits before
digitsValue(text, i, acc) ==
    IF i > Len(text) \/ ~isDigit(text[i]) THEN acc
    ELSE digitsValue(text, i + 1, acc * 10 + digitValue(text[i]))

\* parseInt(value): an optional sign, then the longest run of digits, whatever
\* follows them; NaN when no digit stands there
parseInt(text) ==
    LET signed == Len(text) > 0 /\ text[1] \in {"-", "+"}
        first == IF signed THEN 2 ELSE 1
    IN  IF first > Len(text) \/ ~isDigit(text[first]) THEN NaN
        ELSE IF signed /\ text[1] = "-" THEN 0 - digitsValue(text, first, 0)
        ELSE digitsValue(text, first, 0)

\* lines 199-208: the message of the Error thrown for the cell, "" if none
cellError(n, text) ==
    LET num == parseInt(text)
    IN  IF text = <<>> THEN "Please fill all cells"
        ELSE IF isNaN(num) \/ num < 0 \/ num >= n * n
        THEN "Please enter numbers between 0 and " \o ToString(n * n - 1)
        ELSE ""

\* lines 196-218: the message of the first Error thrown, cell by cell and then for
\* the Set of the numbers, "" if none is thrown
inputErrorOf(n, grid) ==
    LET cells == flat(n, grid)
        bad == {k \in 1..(n * n) : cellError(n, cells[k]) # ""}
    IN  IF bad # {}
        THEN cellError(n, cells[CHOOSE k \in bad : \A other \in bad : k <= other])
        ELSE IF Cardinality({parseInt(cells[k]) : k \in 1..(n * n)}) # n * n
        THEN "Please enter unique numbers"
        ELSE ""

\* lines 220-224: the grid of the numbers
newPuzzle(n, grid) == [i \in 1..n |-> [j \in 1..n |-> parseInt(grid[i][j])]]

\* lines 36-41
emptyGrid(n) == [i \in 1..n |-> [j \in 1..n |-> <<>>]]

InputInit ==
    /\ size = InputSize
    /\ \E state \in pageGrids(InputSize) :
          page = initializePuzzle(
                    [initialState |-> <<>>,
                     currentState |-> <<>>,
                     solution |-> <<>>,
                     selectedAlgorithm |-> "astar",
                     selectedHeuristic |-> "manhattan",
                     isSolving |-> FALSE,
                     currentStep |-> 0,
                     isPlaying |-> FALSE,
                     stats |-> noStats,
                     showCustomInput |-> FALSE,
                     gridInput |-> <<>>,
                     inputError |-> "",
                     showSolvabilityInfo |-> FALSE,
                     events |-> 0], state)
    /\ initialState = <<>>
    /\ algorithm = ""
    /\ heuristic = ""
    /\ nodes = <<>>
    /\ frontier = <<>>
    /\ visited = {}
    /\ fScore = <<>>
    /\ nodesExplored = 0
    /\ maxDepth = 0
    /\ status = "idle"
    /\ error = ""
    /\ path = <<>>
    /\ idleBoard
    /\ calls = <<>>
    /\ heap = <<>>

\* what an event of the dialog leaves alone
inputEvent ==
    /\ status = "idle"
    /\ UNCHANGED solverVars
    /\ UNCHANGED boardVars
    /\ UNCHANGED <<calls, heap>>

\* line 329 (Custom Input) and the effect of lines 36-41
OpenCustomInput ==
    /\ ~page.showCustomInput
    /\ ~page.showSolvabilityInfo
    /\ page.events < MaxInputEvents
    /\ page' = counted([page EXCEPT !.showCustomInput = TRUE,
                                    !.gridInput = emptyGrid(size)])
    /\ inputEvent

\* lines 188-192, from the field of cell (row, col)
HandleGridInputChange ==
    /\ page.showCustomInput
    /\ \E row \in 1..size : \E col \in 1..size :
          \E value \in CellTexts \ {page.gridInput[row][col]} :
              page' = [page EXCEPT !.gridInput[row][col] = value]
    /\ inputEvent

\* lines 194-237 (Apply)
HandleCustomInput ==
    /\ page.showCustomInput
    /\ page' = IF inputErrorOf(size, page.gridInput) = ""
               THEN [page EXCEPT !.initialState = newPuzzle(size, page.gridInput),
                                 !.currentState = newPuzzle(size, page.gridInput),
                                 !.solution = <<>>,
                                 !.stats = noStats,
                                 !.showCustomInput = FALSE,
                                 !.gridInput = <<>>]
               ELSE [page EXCEPT !.inputError = inputErrorOf(size, page.gridInput)]
    /\ inputEvent

\* lines 460 and 518 (the cross and Cancel)
CloseCustomInput ==
    /\ page.showCustomInput
    /\ page' = [page EXCEPT !.showCustomInput = FALSE]
    /\ inputEvent

\* line 335 (Solve), which the dialog covers while it shows
InputSolve ==
    /\ ~page.showCustomInput
    /\ page.events < MaxInputEvents
    /\ HandleSolve

InputNext ==
    \/ OpenCustomInput
    \/ HandleGridInputChange
    \/ HandleCustomInput
    \/ CloseCustomInput
    \/ InputSolve
    \/ SolveLoop
    \/ HandleSolveEnd
    \/ CloseSolvabilityInfo

InputSpec == InputInit /\ [][InputNext]_vars

(***************************************************************************)
(* Reference definitions for the properties below: brute-force distances   *)
(* in the blank-move graph and the replay of a path.                       *)
(***************************************************************************)
RECURSIVE levelsToGoal(_, _, _, _)
\* breadth-first levels from a set of grids: the number of the level that holds the
\* goal, or -1 if the levels run out before it
levelsToGoal(n, level, seen, k) ==
    IF generateGoalState(n) \in level THEN k
    ELSE IF level = {} THEN 0 - 1
    ELSE LET next == (UNION {moveSet(n, g) : g \in level}) \ seen
         IN  levelsToGoal(n, next, seen \cup next, k + 1)

shortestDistance(n, state) == levelsToGoal(n, {state}, {state}, 0)

validCall == algorithm \in Algorithms /\ heuristic \in Heuristics

\* the grid after the blank is swapped with its neighbour in the direction of label;
\* <<>> when that neighbour is off the board or the label is no direction
applyLabel(n, state, label) ==
    LET blank == getBlankPosition(n, state)
        row == blank[1] + (IF label = "Down" THEN 1 ELSE IF label = "Up" THEN 0 - 1 ELSE 0)
        col == blank[2] + (IF label = "Right" THEN 1 ELSE IF label = "Left" THEN 0 - 1 ELSE 0)
    IN  IF /\ label \in {"Up", "Down", "Left", "Right"}
           /\ row >= 0 /\ row < n /\ col >= 0 /\ col < n
        THEN swapCells(state, blank[1], blank[2], row, col)
        ELSE <<>>

RECURSIVE replay(_, _, _, _)
\* the labels k.. of labels applied in order to state; <<>> once a label fails
replay(n, state, labels, k) ==
    IF state = <<>> \/ k > Len(labels) THEN state
    ELSE replay(n, applyLabel(n, state, labels[k]), labels, k + 1)

(***************************************************************************)
(* Properties of solve, under Spec.                                        *)
(***************************************************************************)

\* C1: a path returned by bfs, under any heuristic, is as long as the shortest path
\* from the input to the goal in the blank-move graph, which is at most 31 moves;
\* for the scenario grid the path is exactly Down, Right.
BfsReturnsShortestPath ==
    (status = "returned" /\ algorithm = "bfs") =>
        /\ Len(path) = shortestDistance(size, initialState)
        /\ Len(path) <= 31
        /\ initialState = scenarioGrid => path = <<"Down", "Right">>

BfsSolvedScenario ==
    /\ status = "returned"
    /\ algorithm = "bfs"
    /\ heuristic = "manhattan"
    /\ initialState = scenarioGrid
    /\ nodesExplored > 2

\* C2: the labels of a returned path, applied in order to the input grid, never move
\* the blank off the board and end in the goal grid, for every algorithm and heuristic.
PathReplaysToGoal ==
    status = "returned" =>
        replay(size, initialState, path, 1) = generateGoalState(size)

ReplayedDfsPath ==
    /\ status = "returned"
    /\ algorithm = "dfs"
    /\ size = 3
    /\ Len(path) > shortestDistance(size, initialState)

\* C5 (as claimed): on a 3x3 grid the path returned by astar with the Manhattan
\* heuristic is no longer than the path returned by bfs, which is a shortest path
\* (C1), so that the two are equally long.
AstarManhattanShortest ==
    (status = "returned" /\ algorithm = "astar" /\ heuristic = "manhattan" /\ size = 3)
        => Len(path) = shortestDistance(size, initialState)

(***************************************************************************)
(* Properties of isSolvable and of the heuristics, under the walks.        *)
(***************************************************************************)

\* C3: on the 3x3 board isSolvable is true of every grid reached from the goal grid
\* by blank moves and false of every grid reached from the goal grid with tiles 1
\* and 2 exchanged; no walk from the exchanged grid meets the goal grid, so the two
\* walks are disjoint, and together they hold 2 * 181440 = 9! grids, which is every
\* permutation of 0..8.
SolvableIffReachableFromGoal ==
    size = 3 =>
        /\ solvable <=> origin = "goal"
        /\ origin = "exchanged" => board # generateGoalState(size)

UnsolvableGridReached ==
    /\ size = 3
    /\ origin = "exchanged"
    /\ board[2][2] = 0
    /\ board[3][3] = 1
    /\ ~solvable

\* the pairs of tiles, blank left out, that stand in the wrong order in row-major
\* reading, counted directly
inversionPairs(n, state) ==
    Cardinality({p \in (1..n) \X (1..n) \X (1..n) \X (1..n) :
                    /\ (p[1] - 1) * n + p[2] < (p[3] - 1) * n + p[4]
                    /\ state[p[1]][p[2]] # 0
                    /\ state[p[3]][p[4]] # 0
                    /\ state[p[1]][p[2]] > state[p[3]][p[4]]})

\* N - blankRow, with blankRow the 0-based row that holds the blank
blankRowFromBottomOf(n, state) ==
    n - ((CHOOSE i \in 1..n : \E j \in 1..n : state[i][j] = 0) - 1)

\* C4 (as claimed): for even N isSolvable is true exactly when one, and only one, of
\* "blankRowFromBottom is even" and "inversions is odd" holds.
EvenSizeSolvableIffParitiesDiffer ==
    size % 2 = 0 =>
        (solvable <=> ((blankRowFromBottomOf(size, board) % 2 = 0)
                          # (inversionPairs(size, board) % 2 = 1)))

\* C4 (amended): for even N isSolvable is true exactly when "blankRowFromBottom is
\* even" and "inversions is odd" both hold or both fail.
EvenSizeSolvableIffParitiesAgree ==
    size % 2 = 0 =>
        (solvable <=> ((blankRowFromBottomOf(size, board) % 2 = 0)
                          = (inversionPairs(size, board) % 2 = 1)))

EvenSizeBothParitiesSeen ==
    /\ size = 4
    /\ steps = 3
    /\ origin = "goal"
    /\ solvable
    /\ blankRowFromBottomOf(size, board) % 2 = 0
    /\ inversionPairs(size, board) % 2 = 1

\* C9: each of the four heuristics is 0 on the goal grid, for every board size.
HeuristicsZeroAtGoal ==
    board = generateGoalState(size) =>
        \A kind \in Heuristics : estimates[kind] = 0

GoalRevisited ==
    /\ size = 4
    /\ steps = 2
    /\ board = generateGoalState(size)
    /\ \A kind \in Heuristics : estimates[kind] = 0


(***************************************************************************)
(* Properties of the termination and of the failures of solve.             *)
(***************************************************************************)

\* whether the goal can be reached from the input of the call: by brute force on the
\* 2x2 board; on the 3x3 board every input but the exchanged grid was made by blank
\* moves from the goal or is solved by some call of the model, and no walk from the
\* exchanged grid meets the goal (C3)
solvableInput ==
    /\ hasBlank(size, initialState)
    /\ IF size = 2 THEN shortestDistance(size, initialState) >= 0
       ELSE initialState # exchanged(size)

\* a dfs iteration that neither returns nor throws: the popped node is discarded, or
\* its state, a state not yet visited that is the input or a move away from a
\* visited state, is the one state added to visited
dfsDiscardsOrVisits ==
    LET popped == nodes[frontier[Len(frontier)]]
    IN  \/ /\ Key(popped.state) \in visited
           /\ visited' = visited
           /\ nodes' = nodes
           /\ Len(frontier') = Len(frontier) - 1
        \/ /\ Key(popped.state) \notin visited
           /\ visited' = visited \cup {Key(popped.state)}
           /\ \/ popped.parent = 0 /\ popped.state = initialState
              \/ /\ popped.parent # 0
                 /\ Key(nodes[popped.parent].state) \in visited
                 /\ popped.state \in moveSet(size, nodes[popped.parent].state)

\* C6: every dfs iteration on a permutation grid returns, discards the popped node or
\* marks one more state visited; on a solvable input the visited (that is, expanded)
\* states number at most the states reachable from the input (12 on the 2x2 board,
\* 181440 on the 3x3 board), the call never throws, and it returns, unless the model
\* stops following it at MaxPops iterations.
DfsTerminates ==
    /\ [][(algorithm = "dfs" /\ status = "running" /\ Len(frontier) > 0
              /\ hasBlank(size, initialState))
            => (status' = "returned" \/ (status' = "running" /\ dfsDiscardsOrVisits))]_vars
    /\ [](algorithm = "dfs" /\ validCall /\ solvableInput
            => /\ status # "threw"
               /\ Cardinality(visited) <= (IF size = 2 THEN 12 ELSE 181440)
               /\ Cardinality(visited) <= nodesExplored)
    /\ (algorithm = "dfs" /\ validCall /\ solvableInput)
            ~> (status = "returned" \/ nodesExplored >= MaxPops)

DfsReturnedOnThreeByThree ==
    /\ algorithm = "dfs"
    /\ status = "returned"
    /\ size = 3
    /\ solvableInput
    /\ Cardinality(visited) > 20

\* whether the goal cannot be reached from the input of the call
unsolvableInput == hasBlank(size, initialState) /\ ~solvableInput

\* C7: on a permutation grid from which the goal cannot be reached, solve under bfs,
\* dfs and astar never returns; it stops only with the frontier empty, throwing
\* 'No solution found'.
UnsolvableNeverReturns ==
    (validCall /\ unsolvableInput) =>
        /\ status # "returned"
        /\ status = "threw" => (error = "No solution found" /\ frontier = <<>>)

UnsolvableFrontierEmptied ==
    /\ validCall
    /\ size = 2
    /\ unsolvableInput
    /\ status = "threw"
    /\ Cardinality(visited) = 12

\* C8: called on the goal grid, solve under every algorithm and heuristic returns at
\* its first iteration with path = [], nodesExplored >= 1 and maxDepth = 0, and has
\* expanded no node: no state is marked visited and no child node is created.
GoalInputReturnsEmptyPath ==
    (validCall /\ initialState = generateGoalState(size)) =>
        /\ status # "threw"
        /\ visited = {}
        /\ Len(nodes) <= 1
        /\ status = "running" => nodesExplored = 0
        /\ status = "returned" =>
              (path = <<>> /\ nodesExplored >= 1 /\ maxDepth = 0 /\ frontier = <<>>)

GoalInputReturned ==
    /\ status = "returned"
    /\ algorithm = "astar"
    /\ heuristic = "euclidean"
    /\ size = 3
    /\ initialState = generateGoalState(size)

\* C10 (as claimed): a call with an algorithm outside bfs, dfs, astar fails at once,
\* before any pop, with an error of its own, distinct from 'No solution found'.
UnknownAlgorithmHasOwnError ==
    (status = "threw" /\ algorithm \notin Algorithms /\ heuristic \in Heuristics) =>
        /\ nodesExplored = 0
        /\ error # "No solution found"

\* C11: a call with a heuristic other than the four kinds throws 'Unknown heuristic'
\* when the root node is created, whatever the algorithm (bfs and dfs, which never
\* order by the heuristic, and values that are no algorithm included): no node is
\* created, nothing enters the frontier and nothing is popped.
UnknownHeuristicThrowsFirst ==
    heuristic \notin {"hamming", "manhattan", "euclidean", "linearConflicts"} =>
        /\ status \in {"idle", "threw"}
        /\ status = "threw" => error = "Unknown heuristic: " \o heuristic
        /\ nodes = <<>>
        /\ frontier = <<>>
        /\ visited = {}
        /\ nodesExplored = 0

UnknownHeuristicThrownUnderBfs ==
    /\ status = "threw"
    /\ algorithm = "bfs"
    /\ heuristic = "chebyshev"
    /\ error = "Unknown heuristic: chebyshev"

\* C12: on a grid without a 0, isSolvable throws 'No blank tile found' and returns no
\* boolean, for odd and even sizes; solve under bfs, dfs and astar pops the root,
\* throws the same error when it asks for the moves of the root, and never returns.
NoBlankThrows ==
    ~hasBlank(size, initialState) =>
        /\ board # <<>> => boardError = "No blank tile found"
        /\ status # "returned"
        /\ validCall =>
              /\ nodesExplored <= 1
              /\ Len(nodes) <= 1
              /\ status = "running" => nodesExplored = 0
              /\ status = "threw" => error = "No blank tile found"

NoBlankThrownByBoth ==
    /\ size = 2
    /\ initialState = filledReversed(size)
    /\ board = initialState
    /\ boardError = "No blank tile found"
    /\ algorithm = "dfs"
    /\ heuristic = "hamming"
    /\ status = "threw"
    /\ error = "No blank tile found"

\* the cell that holds the blank, as <<row, column>> counted from 1
blankCell(n, state) == CHOOSE c \in (1..n) \X (1..n) : state[c[1]][c[2]] = 0

\* the change of <<row, column>> of the blank that a label names
labelOffset(label) ==
    CASE label = "Up" -> <<0 - 1, 0>>
      [] label = "Down" -> <<1, 0>>
      [] label = "Left" -> <<0, 0 - 1>>
      [] label = "Right" -> <<0, 1>>

\* the grid after the blank has changed places with its neighbour in the direction
\* of label, built cell by cell; <<>> when the blank has no such neighbour
slid(n, state, label) ==
    LET from == blankCell(n, state)
        to == <<from[1] + labelOffset(label)[1], from[2] + labelOffset(label)[2]>>
    IN  IF to \in (1..n) \X (1..n)
        THEN [i \in 1..n |-> [j \in 1..n |->
                 IF <<i, j>> = from THEN state[to[1]][to[2]]
                 ELSE IF <<i, j>> = to THEN 0
                 ELSE state[i][j]]]
        ELSE <<>>

\* C13: every element of a returned path is one of "Up", "Down", "Left", "Right";
\* the action of the root is "" and the action of every other node names the
\* direction the blank moved from the state of its parent to its own state (Up: the
\* row decreases by 1, Down: it increases, Left: the column decreases, Right: it
\* increases).
ActionsNameBlankMoves ==
    /\ \A i \in 1..Len(path) : path[i] \in {"Up", "Down", "Left", "Right"}
    /\ \A k \in 1..Len(nodes) :
          IF nodes[k].parent = 0 THEN nodes[k].action = ""
          ELSE /\ nodes[k].action \in {"Up", "Down", "Left", "Right"}
               /\ LET from == blankCell(size, nodes[nodes[k].parent].state)
                      to == blankCell(size, nodes[k].state)
                      offset == labelOffset(nodes[k].action)
                  IN  to = <<from[1] + offset[1], from[2] + offset[2]>>

PathWithEveryLabel ==
    /\ status = "returned"
    /\ size = 3
    /\ {path[i] : i \in 1..Len(path)} = {"Up", "Down", "Left", "Right"}

\* depth + heuristic(state) of the node at index k, computed from the node
nodeScore(k) == addDepth(heuristic, nodes[k].depth, nodes[k].cost)

\* C19 (as claimed): in an astar iteration the node popped has depth + h(state) no
\* greater than depth + h(state) of any node left in the open set.
AstarPopsLeastScore ==
    [][(/\ status = "running"
        /\ algorithm = "astar"
        /\ Len(frontier) > 0
        /\ nodesExplored' = nodesExplored + 1) =>
          LET taken == takeNode
          IN  \A r \in 1..Len(taken.rest) : nodeScore(taken.node) <= nodeScore(taken.rest[r])]_vars

\* the states of the nodes of a frontier hold no state twice
holdsStatesOnce(open, arena) ==
    \A i, j \in 1..Len(open) : arena[open[i]].state = arena[open[j]].state => i = j

\* C20 (as claimed): an astar iteration leaves the open set with at most one node
\* for a state, and the fScore recorded for a state never becomes greater: a move
\* whose state is in the open set replaces that node when its fScore is smaller and
\* is dropped otherwise.
AstarKeepsBetterEntry ==
    [][(/\ status = "running"
        /\ algorithm = "astar"
        /\ nodesExplored' = nodesExplored + 1) =>
          /\ holdsStatesOnce(frontier', nodes')
          /\ \A key \in DOMAIN fScore : fScore'[key] <= fScore[key]]_vars

\* the fScore recorded for the state of the node at index k, which the sort reads
recordedScore(k) == fScoreOf(fScore, Key(nodes[k].state))

\* C21 (as claimed): in an astar iteration the node popped is as deep as any node of
\* the open set that shares its fScore, the least fScore of the open set.
AstarTiesPopDeepest ==
    [][(/\ status = "running"
        /\ algorithm = "astar"
        /\ Len(frontier) > 0
        /\ nodesExplored' = nodesExplored + 1) =>
          LET taken == takeNode
          IN  \A r \in 1..Len(taken.rest) :
                  recordedScore(taken.rest[r]) = recordedScore(taken.node) =>
                      nodes[taken.rest[r]].depth <= nodes[taken.node].depth]_vars

\* the nodes that stand in the frontier, and the nodes that have been taken from it
waiting == {frontier[r] : r \in 1..Len(frontier)}
popped == (1..Len(nodes)) \ waiting

\* the nodes that have a child
parents == {nodes[c].parent : c \in 1..Len(nodes)} \ {0}

\* C24: under bfs, dfs and astar a state has its children generated at most once:
\* no two nodes with children hold the same state, and an iteration that pops a
\* node which is not the goal and whose state is in the visited set leaves the
\* nodes, the visited set and the fScore map as they are and only drops the node;
\* an iteration that creates nodes or adds to the visited set does so for a state
\* that was not in the set, and the set never loses a state.
ChildrenGeneratedOnce ==
    /\ [](Cardinality({nodes[p].state : p \in parents}) = Cardinality(parents))
    /\ [][(/\ status = "running"
            /\ Len(frontier) > 0
            /\ nodesExplored' = nodesExplored + 1) =>
              LET taken == takeNode
                  node == nodes[taken.node]
              IN  /\ (Key(node.state) \in visited /\ ~isGoalState(size, node.state)) =>
                        /\ nodes' = nodes
                        /\ visited' = visited
                        /\ fScore' = fScore
                        /\ frontier' = taken.rest
                        /\ status' = "running"
                  /\ (nodes' # nodes \/ visited' # visited) =>
                        /\ Key(node.state) \notin visited
                        /\ visited' = visited \cup {Key(node.state)}
                        /\ \A c \in (Len(nodes) + 1)..Len(nodes') :
                               nodes'[c].parent = taken.node
                  /\ visited \subseteq visited']_vars

\* C24 witness: under astar a node has been popped and dropped whose state had its
\* children generated through a deeper node
DroppedAtSmallerDepth ==
    /\ algorithm = "astar"
    /\ LET expanded == parents
           dropped == popped \ expanded
       IN  \E j \in expanded : \E k \in dropped :
               /\ nodes[k].state = nodes[j].state
               /\ nodes[k].depth < nodes[j].depth

\* C26: under bfs, dfs and astar nodesExplored is the number of nodes taken from the
\* frontier, the goal node and the dropped nodes included, in every state of a call
\* and so in the Solution returned; the pop of a node that holds the goal returns
\* whatever the visited set holds, and the goal is never put into the visited set.
NodesExploredCountsPops ==
    /\ [](algorithm \in Algorithms => nodesExplored = Cardinality(popped))
    /\ [](Key(generateGoalState(size)) \notin visited)
    /\ [][(/\ status = "running"
            /\ Len(frontier) > 0
            /\ frontier' # frontier) =>
              LET node == nodes[takeNode.node]
              IN  /\ nodesExplored' = nodesExplored + 1
                  /\ isGoalState(size, node.state) =>
                        /\ status' = "returned"
                        /\ visited' = visited
                  /\ (~isGoalState(size, node.state) /\ Key(node.state) \in visited) =>
                        /\ status' = "running"
                        /\ visited' = visited]_vars

\* C26 witness: a Solution has been returned by a call that dropped a node, two of
\* the popped nodes holding one state, and nodesExplored counts them all
ReturnedAfterDroppedPop ==
    /\ status = "returned"
    /\ nodesExplored = Cardinality(popped)
    /\ Cardinality({nodes[k].state : k \in popped}) < nodesExplored

\* the largest depth among the popped nodes, 0 when none has been popped
deepestPopped ==
    LET depths == {nodes[k].depth : k \in popped} \cup {0}
    IN  CHOOSE d \in depths : \A other \in depths : other <= d

\* C27: the root has depth 0 and a child the depth of its parent plus 1; under bfs,
\* dfs and astar maxDepth is the largest depth among the nodes popped so far, and in
\* a returned Solution the path is as long as the goal node is deep, so that
\* maxDepth >= length of path.
MaxDepthIsDeepestPop ==
    /\ \A k \in 1..Len(nodes) :
          nodes[k].depth = IF nodes[k].parent = 0 THEN 0
                           ELSE nodes[nodes[k].parent].depth + 1
    /\ algorithm \in Algorithms => maxDepth = deepestPopped
    /\ status = "returned" =>
          /\ \E k \in popped : /\ isGoalState(size, nodes[k].state)
                                /\ Len(path) = nodes[k].depth
          /\ maxDepth >= Len(path)

\* C27 witness: a Solution of four moves or more has been returned by a call that
\* popped nodes off the path as well, and maxDepth is the depth of the deepest of
\* the popped nodes, the goal node
ReturnedWithDeepestPop ==
    /\ status = "returned"
    /\ Len(path) >= 4
    /\ nodesExplored > Len(path) + 1
    /\ maxDepth = deepestPopped
    /\ maxDepth >= Len(path)

\* each of 0..n*n-1 stands in exactly one cell of state
isPermutationGrid(n, state) ==
    \A v \in 0..(n * n - 1) :
        Cardinality({c \in (1..n) \X (1..n) : state[c[1]][c[2]] = v}) = 1

\* the cells in which two grids differ
differingCells(n, a, b) == {c \in (1..n) \X (1..n) : a[c[1]][c[2]] # b[c[1]][c[2]]}

\* child is parent with the blank and one tile next to it, above, below, left or
\* right, exchanged, and no other cell changed
isBlankSwap(n, parent, child) ==
    LET from == blankCell(n, parent)
        to == blankCell(n, child)
    IN  /\ Abs(from[1] - to[1]) + Abs(from[2] - to[2]) = 1
        /\ differingCells(n, parent, child) = {from, to}
        /\ parent[to[1]][to[2]] # 0
        /\ child[from[1]][from[2]] = parent[to[1]][to[2]]

\* C29: when the grid given to solve is a permutation of 0..N*N-1, the state of
\* every node of the call is such a permutation, with one 0, and the state of every
\* node but the root differs from the state of its parent in two cells, the blank
\* and a tile orthogonally next to it, which have changed places.
NodesHoldPermutations ==
    initialState \in permutationGrids(size) =>
        \A k \in 1..Len(nodes) :
            /\ isPermutationGrid(size, nodes[k].state)
            /\ nodes[k].parent # 0 =>
                  isBlankSwap(size, nodes[nodes[k].parent].state, nodes[k].state)

\* C29 witness: a call on a 3x3 permutation grid has returned and holds a node four
\* levels below the root whose state is its parent's with the blank moved
DeepNodeIsBlankSwap ==
    /\ size = 3
    /\ initialState \in permutationGrids(size)
    /\ status = "returned"
    /\ \E k \in 1..Len(nodes) :
          /\ nodes[k].depth = 4
          /\ isPermutationGrid(size, nodes[k].state)
          /\ isBlankSwap(size, nodes[nodes[k].parent].state, nodes[k].state)

moveLabels == <<"Up", "Down", "Left", "Right">>

\* the directions, as indices of moveLabels, in which the blank of state has a
\* neighbour and the grid with the blank moved there is not in seen
openDirections(n, state, seen) ==
    {d \in 1..Len(moveLabels) :
        /\ slid(n, state, moveLabels[d]) # <<>>
        /\ Key(slid(n, state, moveLabels[d])) \notin seen}

\* C30: when an iteration of the dfs loop creates children for the node it popped,
\* the node the next iteration pops is the child created last: the child for the
\* last of Up, Down, Left, Right that keeps the blank on the board and leads to a
\* state not in the visited set, so the Right child whenever there is one.
DfsPopsLastChildNext ==
    [][(/\ status = "running"
        /\ algorithm = "dfs"
        /\ Len(nodes') > Len(nodes)) =>
          LET parent == popStack(frontier).node
              next == popStack(frontier').node
              open == openDirections(size, nodes[parent].state, visited')
              last == CHOOSE d \in open : \A other \in open : other <= d
          IN  /\ status' = "running"
              /\ open # {}
              /\ next = Len(nodes')
              /\ nodes'[next].parent = parent
              /\ nodes'[next].action = moveLabels[last]
              /\ nodes'[next].state = slid(size, nodes[parent].state, moveLabels[last])
              /\ 4 \in open => nodes'[next].action = "Right"]_vars

\* C30 witness: the dfs loop has just created children for a node whose Right
\* neighbour is in the visited set, and the node it pops next is the child created
\* last, for another direction
DfsNextIsNotRight ==
    /\ status = "running"
    /\ algorithm = "dfs"
    /\ size = 3
    /\ Len(frontier) > 0
    /\ LET next == popStack(frontier).node
       IN  /\ next = Len(nodes)
           /\ nodes[next].parent # 0
           /\ nodes[next].action \in {"Up", "Down", "Left"}
           /\ slid(size, nodes[nodes[next].parent].state, "Right") # <<>>
           /\ Key(slid(size, nodes[nodes[next].parent].state, "Right")) \in visited

\* C33: in the bfs loop the node popped is at least as deep as every node popped
\* before it in the call, and every node the queue holds while the node is
\* processed, the children it pushes included, has the depth of the node or that
\* depth plus 1, the queue being in order of depth.
BfsPopsByDepth ==
    [][(/\ status = "running"
        /\ algorithm = "bfs"
        /\ Len(frontier) > 0
        /\ frontier' # frontier) =>
          LET node == nodes[shiftQueue(frontier).node]
          IN  /\ node.depth >= deepestPopped
              /\ \A r \in 1..Len(frontier) :
                    nodes[frontier[r]].depth \in {node.depth, node.depth + 1}
              /\ \A r \in 1..Len(frontier') :
                    nodes'[frontier'[r]].depth \in {node.depth, node.depth + 1}
              /\ \A r \in 1..(Len(frontier') - 1) :
                    nodes'[frontier'[r]].depth <= nodes'[frontier'[r + 1]].depth]_vars

\* C33 witness: the bfs loop has popped nodes down to depth 2 or more and its
\* queue holds nodes of that depth and nodes one deeper
BfsQueueOfTwoDepths ==
    /\ status = "running"
    /\ algorithm = "bfs"
    /\ size = 3
    /\ maxDepth >= 2
    /\ maxDepth = deepestPopped
    /\ \E r \in 1..Len(frontier) : nodes[frontier[r]].depth = maxDepth
    /\ \E r \in 1..Len(frontier) : nodes[frontier[r]].depth = maxDepth + 1

(***************************************************************************)
(* Properties of the heuristics, under EnumSpec and BoardSpec.             *)
(***************************************************************************)

\* the tiles 1..n*n-1 that do not stand on their goal cell, counted directly
misplacedTiles(n, state) ==
    Cardinality({c \in (1..n) \X (1..n) :
                    /\ state[c[1]][c[2]] # 0
                    /\ state[c[1]][c[2]] # (c[1] - 1) * n + c[2]})

\* C31: on boards of size 2, 3 and 4 isSolvable gives a grid and every grid that
\* getPossibleMoves makes from it the same answer, and it gives the goal TRUE, so
\* that every grid reached from the goal by moves is reported solvable.
SolvableKeptByMoves ==
    LET moves == getPossibleMoves(size, board)
    IN  /\ solvable = isSolvableResult(size, board)
        /\ \A d \in 1..Len(moves) : isSolvableResult(size, moves[d]) = solvable
        /\ isSolvableResult(size, generateGoalState(size))
        /\ origin = "goal" => solvable

\* C31 witness: on the 4x4 board the blank has been moved from the goal into the
\* second row, by three moves or more, and the grid is reported solvable
SolvableAfterRowChanges ==
    /\ size = 4
    /\ origin = "goal"
    /\ steps >= 3
    /\ \E j \in 1..4 : board[2][j] = 0
    /\ solvable
    /\ boardError = ""

\* the number of sides of the board that the cell of the blank lies on
sidesTouched(n, state) ==
    LET at == blankCell(n, state)
    IN  Cardinality({side \in {"top", "bottom", "left", "right"} :
                        \/ side = "top" /\ at[1] = 1
                        \/ side = "bottom" /\ at[1] = n
                        \/ side = "left" /\ at[2] = 1
                        \/ side = "right" /\ at[2] = n})

\* C28: for a permutation grid getPossibleMoves returns, in the order Up, Down,
\* Left, Right, the grid with the blank moved one cell in each direction that keeps
\* it on the board and nothing else: 2 grids with the blank in a corner, 3 on an
\* edge off the corners, 4 in the interior.
MovesInFixedOrder ==
    LET moves == getPossibleMoves(size, board)
        wanted == SelectSeq(<<slid(size, board, "Up"), slid(size, board, "Down"),
                              slid(size, board, "Left"), slid(size, board, "Right")>>,
                            LAMBDA g : g # <<>>)
    IN  /\ moves = wanted
        /\ Len(moves) = 4 - sidesTouched(size, board)
        /\ Len(moves) \in 2..4

\* C28 witness: boards reached by moves with the blank in the interior and four
\* successors
FourMovesFromCentre ==
    /\ size = 3
    /\ board # generateGoalState(3)
    /\ board # exchanged(3)
    /\ board[2][2] = 0
    /\ Len(getPossibleMoves(size, board)) = 4
    /\ getPossibleMoves(size, board)[3] = slid(size, board, "Left")

\* the radius around the 3x3 goal within which distances are known by enumeration
MaxNear == 10

RECURSIVE ballsAround(_, _, _)
\* <<the grids within 0 moves of grids, within 1 move, ..., within k moves>>
ballsAround(n, grids, k) ==
    IF k = 0 THEN <<grids>>
    ELSE <<grids>> \o ballsAround(n, grids \cup UNION {moveSet(n, g) : g \in grids}, k - 1)

goalBalls == ballsAround(3, {generateGoalState(3)}, MaxNear)

\* C25: on the 3x3 board the Manhattan heuristic is consistent, manhattan(s) <= 1 +
\* manhattan(s') for every move s -> s' of every permutation grid, it is 0 at the
\* goal, and it is admissible: a grid that k <= MaxNear moves take to the goal has
\* manhattan at most k.
ManhattanConsistentAdmissible ==
    size = 3 =>
        LET here == manhattanDistance(3, board)
            moves == getPossibleMoves(3, board)
        IN  /\ board = generateGoalState(3) => here = 0
            /\ board \in goalBalls[MaxNear + 1] =>
                  \A k \in 0..MaxNear : board \in goalBalls[k + 1] => here <= k
            /\ \A d \in 1..Len(moves) :
                  LET there == manhattanDistance(3, moves[d])
                  IN  here <= 1 + there /\ there <= 1 + here

\* C25 witness: a 3x3 grid MaxNear moves from the goal, and no fewer, whose
\* Manhattan distance is smaller than MaxNear
ManhattanBelowDistance ==
    /\ size = 3
    /\ board \in goalBalls[MaxNear + 1]
    /\ board \notin goalBalls[MaxNear]
    /\ manhattanDistance(3, board) < MaxNear
    /\ manhattanDistance(3, board) > 0

\* C22 (as claimed): getHeuristic('hamming', state) is the number of tiles 1..N*N-1
\* that are not on their goal cell; the cell of the blank is not counted.
HammingCountsTilesOnly ==
    estimates["hamming"] = misplacedTiles(size, board)

\* the pairs of tiles in one row, both with that row as goal row, that stand in
\* reversed order
rowConflictPairs(n, state) ==
    Cardinality({p \in (1..n) \X (1..n) \X (1..n) :
                    /\ p[2] < p[3]
                    /\ state[p[1]][p[2]] # 0
                    /\ state[p[1]][p[3]] # 0
                    /\ (state[p[1]][p[2]] - 1) \div n = p[1] - 1
                    /\ (state[p[1]][p[3]] - 1) \div n = p[1] - 1
                    /\ state[p[1]][p[2]] > state[p[1]][p[3]]})

\* the pairs of tiles in one column, both with that column as goal column, that
\* stand in reversed order
columnConflictPairs(n, state) ==
    Cardinality({p \in (1..n) \X (1..n) \X (1..n) :
                    /\ p[2] < p[3]
                    /\ state[p[2]][p[1]] # 0
                    /\ state[p[3]][p[1]] # 0
                    /\ (state[p[2]][p[1]] - 1) % n = p[1] - 1
                    /\ (state[p[3]][p[1]] - 1) % n = p[1] - 1
                    /\ state[p[2]][p[1]] > state[p[3]][p[1]]})

\* C23 (as claimed): getHeuristic('linearConflicts', state) is manhattan(state) plus
\* 2 for every pair of tiles of a row, and of a column, that have the row (the
\* column) as goal and stand in reversed order.
LinearConflictsAddsToManhattan ==
    estimates["linearConflicts"] =
        estimates["manhattan"]
            + 2 * (rowConflictPairs(size, board) + columnConflictPairs(size, board))

(***************************************************************************)
(* Properties of the page, under PageSpec.                                 *)
(***************************************************************************)

\* the goal can be reached from a board with a blank, by the parity of the pairs
\* counted directly: for sizes 2 and 3 that is reachability, as
\* SolvableIffReachableFromGoal has it
solvableBoard(n, state) ==
    IF n % 2 = 1 THEN inversionPairs(n, state) % 2 = 0
    ELSE (blankRowFromBottomOf(n, state) % 2 = 0) = (inversionPairs(n, state) % 2 = 1)

\* C14: on the page a call of solve begins only in handleSolve, on the board shown,
\* with the algorithm and heuristic selected, and only when the goal can be reached
\* from that board; handleSolve on a board from which it cannot be reached shows the
\* solvability notice and begins no call, and solution and stats stay as they were.
SolveOnlyOnSolvableBoard ==
    [][/\ (status = "idle" /\ status' # "idle") =>
             /\ HandleSolve
             /\ initialState' = page.currentState
             /\ algorithm' = page.selectedAlgorithm
             /\ heuristic' = page.selectedHeuristic
             /\ solvableBoard(size, page.currentState)
       /\ (HandleSolve /\ hasBlank(size, page.currentState)
              /\ ~solvableBoard(size, page.currentState)) =>
             /\ page'.showSolvabilityInfo
             /\ page'.solution = page.solution
             /\ page'.stats = page.stats
             /\ ~page'.isSolving
             /\ UNCHANGED solverVars]_vars

\* the notice is up for a board that a tile click has changed and that cannot reach
\* the goal
NoticeShownForClickedBoard ==
    /\ page.showSolvabilityInfo
    /\ status = "idle"
    /\ page.currentState # page.initialState
    /\ ~solvableBoard(size, page.currentState)

\* C17 (as claimed): when handleSolve sets the result of a call that returned, under
\* bfs, dfs or astar, stats.maxDepth, the number under 'Minimum Moves', is the
\* length of the shortest path from the board solved to the goal, and it is the
\* length of solution.path.
MinimumMovesIsShortest ==
    [][(status = "returned" /\ status' = "idle") =>
          /\ page'.stats.maxDepth = shortestDistance(size, initialState)
          /\ page'.stats.maxDepth = Len(page'.solution[1].path)]_vars

\* C18 (as claimed): with a solution on display, a step of the playback (Next, a
\* move of the path, Previous, or a tick of the play) that sets currentStep to the
\* length of solution.path runs through every move of the path with each swap on
\* the board, and the board then shows the goal grid.
StepToEndShowsGoal ==
    [][(/\ HandleStepChange \/ (PlaybackTick /\ page'.currentStep # page.currentStep)
        /\ page'.currentStep = Len(page.solution[1].path)) =>
          /\ stepThrough(size, page.initialState, page.solution[1].path, 0,
                         page'.currentStep).error = ""
          /\ page'.currentState = generateGoalState(size)]_vars

\* C32 (as claimed): whenever the page holds a solution, currentStep lies between 0
\* and the length of the path of that solution.
CurrentStepWithinPath ==
    page.solution # <<>> =>
        /\ 0 <= page.currentStep
        /\ page.currentStep <= Len(page.solution[1].path)

\* C35 (as claimed): playback does not run on a solution that has just been
\* computed: when handleSolve sets the result of solve, isPlaying is false, and it
\* becomes true only by a click on Play after that.
PlaybackWaitsForPlay ==
    [][(status = "returned" /\ status' = "idle") => ~page'.isPlaying]_vars

(***************************************************************************)
(* Properties of the Custom Puzzle Input dialog, under InputSpec.          *)
(***************************************************************************)

\* text is the numeral of an integer: digits and nothing else
isIntegerText(text) == Len(text) > 0 /\ \A i \in 1..Len(text) : isDigit(text[i])

\* C34 (as claimed): handleCustomInput accepts the grid of the dialog only if every
\* cell holds an integer of 0..N*N-1 and no two cells hold the same; it then sets
\* initialState and currentState to that grid, clears the solution and zeroes the
\* stats.  When it rejects the grid it leaves those four alone, keeps the dialog
\* open and sets an error message.
CustomInputAcceptsIntegersOnly ==
    [][(page.showCustomInput /\ ~page.showSolvabilityInfo) =>
          LET cells == flat(size, page.gridInput)
              accepted == ~page'.showCustomInput /\ page'.gridInput = <<>>
              rejected == page'.inputError # page.inputError
          IN  /\ accepted =>
                    /\ \A k \in 1..(size * size) :
                          /\ isIntegerText(cells[k])
                          /\ digitsValue(cells[k], 1, 0) \in 0..(size * size - 1)
                    /\ \A k, m \in 1..(size * size) : k # m => cells[k] # cells[m]
                    /\ page'.initialState \in permutationGrids(size)
                    /\ page'.currentState = page'.initialState
                    /\ page'.solution = <<>>
                    /\ page'.stats = noStats
              /\ rejected =>
                    /\ page'.initialState = page.initialState
                    /\ page'.currentState = page.currentState
                    /\ page'.solution = page.solution
                    /\ page'.stats = page.stats
                    /\ page'.showCustomInput
                    /\ page'.inputError # ""]_vars

(***************************************************************************)
(* Properties of the arrays behind the grids, under HeapSpec.              *)
(***************************************************************************)

\* C15: isSolvable and solve write to no grid they are given or keep: in every state
\* of a call, and after it has returned or thrown, the caller's grid holds the cells
\* it was passed with, goalState holds the goal, and the grid of every node holds the
\* cells it held when the node was created.
GridsNeverWritten ==
    /\ deref(heap.rows, heap.input) = initialState
    /\ deref(heap.rows, heap.goal) = generateGoalState(size)
    /\ Len(heap.states) = Len(nodes)
    /\ \A k \in 1..Len(nodes) : deref(heap.rows, heap.states[k]) = nodes[k].state
    /\ board # <<>> => board = initialState

\* isSolvable has been called and solve has returned with nodes of three depths
\* created from the caller's grid
ReturnedAfterCopies ==
    /\ status = "returned"
    /\ board = initialState
    /\ Len(path) >= 2
    /\ heap.states[1] = heap.input
    /\ Len(heap.states) > 4

(***************************************************************************)
(* Properties of calls one after another, under RepeatSpec.                *)
(***************************************************************************)

\* C16: two calls of solve with the same grid, algorithm and heuristic, on one
\* solver after other calls of solve and isSolvable or on a new solver of the same
\* size, end alike: both return the same path, nodesExplored and maxDepth, or both
\* throw the same error.
SameArgumentsSameResult ==
    \A i, j \in 1..Len(calls) :
        (/\ calls[i].state = calls[j].state
         /\ calls[i].algorithm = calls[j].algorithm
         /\ calls[i].heuristic = calls[j].heuristic) => calls[i] = calls[j]

\* a call that returned a path, another call that ended otherwise, and the first
\* call made again
RepeatedAfterAnotherCall ==
    /\ Len(calls) = MaxCalls
    /\ calls[1].status = "returned"
    /\ Len(calls[1].path) > 1
    /\ calls[2] # calls[1]
    /\ calls[MaxCalls] = calls[1]

====
